---- MODULE Spec2Model ----
(***************************************************************************)
(* The replicated key-value store of maelfosso/key-value-store: the state  *)
(* machine adapter (store/fsm.go), the cluster coordinator (package        *)
(* store: Config.Set / Config.Delete / Config.Get) and the data file they  *)
(* share.  Strings are sequences of byte values.                           *)
(***************************************************************************)
EXTENDS Integers, Sequences, FiniteSets, TLC

(***************************************************************************)
(* Bounds of the model.                                                    *)
(***************************************************************************)
MaxLog == 2

(***************************************************************************)
(* Strings.                                                                *)
(***************************************************************************)
\* "k", the key of the spec's scenarios
KeyK == <<107>>
\* "key", the literal of Config.Delete
KeyLit == <<107, 101, 121>>
\* "v"
ValV == <<118>>
\* "w"
ValW == <<119>>

Keys == {KeyK, KeyLit}
Values == {ValV}

\* byte-wise order of two strings, as sort.Strings orders them
RECURSIVE StrLess(_, _)
StrLess(a, b) ==
    IF a = <<>> THEN b # <<>>
    ELSE IF b = <<>> THEN FALSE
    ELSE IF Head(a) # Head(b) THEN Head(a) < Head(b)
    ELSE StrLess(Tail(a), Tail(b))

(***************************************************************************)
(* encoding/base64, URLEncoding (alphabet A-Z a-z 0-9 - _, padding '=').   *)
(***************************************************************************)
B64Char(i) ==
    IF i < 26 THEN 65 + i
    ELSE IF i < 52 THEN 97 + (i - 26)
    ELSE IF i < 62 THEN 48 + (i - 52)
    ELSE IF i = 62 THEN 45
    ELSE 95

\* the 6-bit value of an alphabet character, -1 for any other byte
B64Val(c) ==
    IF c >= 65 /\ c <= 90 THEN c - 65
    ELSE IF c >= 97 /\ c <= 122 THEN c - 97 + 26
    ELSE IF c >= 48 /\ c <= 57 THEN c - 48 + 52
    ELSE IF c = 45 THEN 62
    ELSE IF c = 95 THEN 63
    ELSE -1

RECURSIVE B64Encode(_)
B64Encode(s) ==
    IF s = <<>> THEN <<>>
    ELSE IF Len(s) = 1 THEN
        << B64Char(s[1] \div 4), B64Char((s[1] % 4) * 16), 61, 61 >>
    ELSE IF Len(s) = 2 THEN
        << B64Char(s[1] \div 4),
           B64Char((s[1] % 4) * 16 + (s[2] \div 16)),
           B64Char((s[2] % 16) * 4), 61 >>
    ELSE
        << B64Char(s[1] \div 4),
           B64Char((s[1] % 4) * 16 + (s[2] \div 16)),
           B64Char((s[2] % 16) * 4 + (s[3] \div 64)),
           B64Char(s[3] % 64) >> \o B64Encode(SubSeq(s, 4, Len(s)))

\* DecodeString: [err |-> TRUE] on corrupt input, else the bytes.  Padding is
\* required and allowed in the last quantum only; the decoder is not strict
\* about the unused trailing bits.
RECURSIVE B64Decode(_)
B64Decode(t) ==
    IF t = <<>> THEN [err |-> FALSE, bytes |-> <<>>]
    ELSE IF Len(t) < 4 THEN [err |-> TRUE, bytes |-> <<>>]
    ELSE
        LET a == B64Val(t[1])
            b == B64Val(t[2])
            c == B64Val(t[3])
            d == B64Val(t[4])
            last == Len(t) = 4
            rest == B64Decode(SubSeq(t, 5, Len(t)))
        IN  IF a < 0 \/ b < 0 THEN [err |-> TRUE, bytes |-> <<>>]
            ELSE IF t[3] = 61 THEN
                IF last /\ t[4] = 61
                THEN [err |-> FALSE, bytes |-> << a * 4 + (b \div 16) >>]
                ELSE [err |-> TRUE, bytes |-> <<>>]
            ELSE IF c < 0 THEN [err |-> TRUE, bytes |-> <<>>]
            ELSE IF t[4] = 61 THEN
                IF last
                THEN [err |-> FALSE,
                      bytes |-> << a * 4 + (b \div 16),
                                   (b % 16) * 16 + (c \div 4) >>]
                ELSE [err |-> TRUE, bytes |-> <<>>]
            ELSE IF d < 0 THEN [err |-> TRUE, bytes |-> <<>>]
            ELSE IF rest.err THEN rest
            ELSE [err |-> FALSE,
                  bytes |-> << a * 4 + (b \div 16),
                               (b % 16) * 16 + (c \div 4),
                               (c % 4) * 64 + d >> \o rest.bytes]

(***************************************************************************)
(* Go maps of strings are functions from a finite set of strings.          *)
(***************************************************************************)
EmptyMap == [k \in {} |-> <<>>]

MapSet(m, k, v) == [x \in DOMAIN m \cup {k} |-> IF x = k THEN v ELSE m[x]]

MapDelete(m, k) == [x \in DOMAIN m \ {k} |-> m[x]]

\* data[key] of a map[string]string: the zero value "" for a missing key
MapGet(m, k) == IF k \in DOMAIN m THEN m[k] ELSE <<>>

(***************************************************************************)
(* encoding/json on a map[string]string.  A text is                        *)
(*   [kind |-> "object", members |-> <<..<<name, value>>..>>]  or          *)
(*   [kind |-> "empty",  members |-> <<>>]   the zero-length text.         *)
(***************************************************************************)
ZeroBytes == [kind |-> "empty", members |-> <<>>]

\* json.Marshal coerces a string to valid UTF-8: a byte that cannot occur in
\* UTF-8 (0xC0, 0xC1, 0xF5..0xFF) becomes U+FFFD.  ASCII passes; multi-byte
\* sequences are not among the strings of this model.
RECURSIVE CoerceUTF8(_)
CoerceUTF8(s) ==
    IF s = <<>> THEN <<>>
    ELSE IF Head(s) = 192 \/ Head(s) = 193 \/ Head(s) >= 245
         THEN <<239, 191, 189>> \o CoerceUTF8(Tail(s))
         ELSE <<Head(s)>> \o CoerceUTF8(Tail(s))

\* the names of a set of strings in sorted order (json.Marshal sorts the keys)
RECURSIVE SortedStrs(_)
SortedStrs(S) ==
    IF S = {} THEN <<>>
    ELSE LET least == CHOOSE x \in S : \A y \in S \ {x} : StrLess(x, y)
         IN  <<least>> \o SortedStrs(S \ {least})

\* json.Marshal of a map: the members in the order of the sorted keys, every
\* string written as valid UTF-8
JsonMarshalMap(m) ==
    LET names == SortedStrs(DOMAIN m)
    IN  [kind |-> "object",
         members |-> [i \in 1..Len(names) |->
                         <<CoerceUTF8(names[i]), CoerceUTF8(m[names[i]])>>]]

\* the members folded left to right into a map: a repeated name keeps the last
RECURSIVE MembersToMap(_)
MembersToMap(ms) ==
    IF ms = <<>> THEN EmptyMap
    ELSE LET n == Len(ms)
         IN  MapSet(MembersToMap(SubSeq(ms, 1, n - 1)), ms[n][1], ms[n][2])

JsonUnmarshalMap(text) ==
    IF text.kind = "object"
    THEN [err |-> FALSE, m |-> MembersToMap(text.members)]
    ELSE [err |-> TRUE, m |-> EmptyMap]

(***************************************************************************)
(* The data file (store/fsm.go).  A file is absent, or holds a text.       *)
(***************************************************************************)
Absent == [kind |-> "absent", members |-> <<>>]

\* an encode that marshals the map as it is, without base64
EncodeWithoutBase64(data) == JsonMarshalMap(data)

\* encode: base64 of every key and value, then json.Marshal
Encode(data) ==
    LET names == {B64Encode(k) : k \in DOMAIN data}
        src(ek) == CHOOSE k \in DOMAIN data : B64Encode(k) = ek
    IN  JsonMarshalMap([ek \in names |-> B64Encode(data[src(ek)])])

\* decode: json.Unmarshal, then base64 of every name and value; any failure
\* fails the whole call.  Two names that decode to one key are written in
\* map-iteration order, so either value may be the one kept: the result is a
\* set of outcomes.
DecodeOutcomes(text) ==
    LET j == JsonUnmarshalMap(text)
        bad == \E ek \in DOMAIN j.m :
                   B64Decode(ek).err \/ B64Decode(j.m[ek]).err
        keys == {B64Decode(ek).bytes : ek \in DOMAIN j.m}
        cand(k) == {B64Decode(j.m[ek]).bytes :
                        ek \in {e \in DOMAIN j.m : B64Decode(e).bytes = k}}
    IN  IF j.err \/ bad
        THEN {[err |-> "decode", m |-> EmptyMap]}
        ELSE {[err |-> "", m |-> f] :
                  f \in {g \in [keys -> UNION {cand(k) : k \in keys}] :
                             \A k \in keys : g[k] \in cand(k)}}

\* flock.New(f.dataFile) locks the data file itself: TryLock opens it with
\* os.O_CREATE|os.O_RDONLY, so a missing data file comes to exist with no bytes
AfterOpen(f) == IF f.kind = "absent" THEN ZeroBytes ELSE f

\* loadData, once locked: os.Stat, and WriteFile of the empty mapping when the
\* file does not exist
AfterStat(f) == IF f.kind = "absent" THEN Encode(EmptyMap) ELSE f

\* loadData run with no other caller in the way: the file it leaves and the
\* outcomes of decoding what it read
LoadData(f) ==
    LET g == AfterStat(AfterOpen(f))
    IN  [file |-> g, results |-> DecodeOutcomes(g)]

\* saveData run with no other caller in the way: the file it leaves
SaveData(f, data) == Encode(data)

\* localSet: the outcomes [file, err] of load, data[key] = value, save
LocalSet(f, key, value) ==
    LET l == LoadData(f)
    IN  {IF r.err # ""
         THEN [file |-> l.file, err |-> r.err]
         ELSE [file |-> SaveData(l.file, MapSet(r.m, key, value)), err |-> ""] :
             r \in l.results}

\* localDelete
LocalDelete(f, key) ==
    LET l == LoadData(f)
    IN  {IF r.err # ""
         THEN [file |-> l.file, err |-> r.err]
         ELSE [file |-> SaveData(l.file, MapDelete(r.m, key)), err |-> ""] :
             r \in l.results}

\* localGet: the outcomes [file, err, out]
LocalGet(f, key) ==
    LET l == LoadData(f)
    IN  {[file |-> l.file, err |-> r.err,
          out |-> IF r.err # "" THEN <<>> ELSE MapGet(r.m, key)] :
             r \in l.results}

(***************************************************************************)
(* Commands (store package, type Command) and their JSON form in the log.  *)
(***************************************************************************)
\* json.Marshal(Command{Action, Key, Value})
CmdMarshal(action, key, value) ==
    [kind |-> "object", Action |-> action,
     Key |-> CoerceUTF8(key), Value |-> CoerceUTF8(value)]

\* bytes that are no JSON at all
Garbage == [kind |-> "garbage", Action |-> "", Key |-> <<>>, Value |-> <<>>]

\* json.Unmarshal(l.Data, &cmd)
CmdUnmarshal(data) ==
    IF data.kind = "object"
    THEN [err |-> FALSE,
          cmd |-> [Action |-> data.Action, Key |-> data.Key, Value |-> data.Value]]
    ELSE [err |-> TRUE, cmd |-> [Action |-> "", Key |-> <<>>, Value |-> <<>>]]

\* an Apply that reports the unmarshal failure instead of returning nil
ApplyOutcomesReportingUnmarshal(f, data) ==
    LET u == CmdUnmarshal(data)
    IN  IF u.err THEN {[file |-> f, resp |-> "unmarshal"]}
        ELSE IF u.cmd.Action = "set"
        THEN {[file |-> o.file, resp |-> o.err] :
                  o \in LocalSet(f, u.cmd.Key, u.cmd.Value)}
        ELSE IF u.cmd.Action = "delete"
        THEN {[file |-> o.file, resp |-> o.err] : o \in LocalDelete(f, u.cmd.Key)}
        ELSE {[file |-> f, resp |-> ""]}

\* fsm.Apply on one log entry: the outcomes [file, resp]; resp is the value
\* Apply returns ("" for nil)
ApplyOutcomes(f, data) ==
    LET u == CmdUnmarshal(data)
    IN  IF u.err THEN {[file |-> f, resp |-> ""]}
        ELSE IF u.cmd.Action = "set"
        THEN {[file |-> o.file, resp |-> o.err] :
                  o \in LocalSet(f, u.cmd.Key, u.cmd.Value)}
        ELSE IF u.cmd.Action = "delete"
        THEN {[file |-> o.file, resp |-> o.err] : o \in LocalDelete(f, u.cmd.Key)}
        ELSE {[file |-> f, resp |-> ""]}

(***************************************************************************)
(* State.                                                                  *)
(***************************************************************************)
Nodes == {1, 2}

VARIABLES
    role,      \* cfg.raft.State() of every node
    log,       \* the committed entries of the consensus log: their Data
    applied,   \* per node: the number of entries fsm.Apply has been run on
    file,      \* per node: the data file <storagePath>/data.json
    file0,     \* per node: the data file the node started with
    lockPtr,   \* per node: fsm.lock, 0 for nil, else the Flock object
    lockHeld,  \* per node: the Flock object whose descriptor holds the flock
    call,      \* the client's latest call of Config.Set / Delete / Get
    resp,      \* per node: what the latest fsm.Apply returned ("" for nil)
    th,        \* per node: the goroutines inside fsm (see the second part)
    snapshot,  \* per node: the latest fsm.Snapshot: the fsmSnapshot or the error
    sink,      \* per node: the bytes Persist wrote to the snapshot sink
    restore,   \* per node: the latest fsm.Restore, and the state it installed
    local,     \* package main's store: its data file and the calls made on it
    codec,     \* a mapping on its way through encode and decode
    req,       \* the HTTP request inside Config.Middleware
    leaderAddr,\* per node: cfg.raft.Leader(), 0 for ""
    boot,      \* per node: the position and locals of NewRaftSetup
    watch      \* per node: the leadership channel and the goroutine reading it

\* the variables of the snapshot part
snapVars == <<snapshot, sink, restore>>

\* the variables of request routing, of startup and of the leadership watch
httpVars == <<req, leaderAddr, boot, watch>>

\* the variables of the parts other than the cluster and its data files
otherParts == <<snapVars, local, codec, httpVars>>

\* the variables of the cluster and its data files
clusterVars == <<role, log, applied, file, file0, lockPtr, lockHeld, call, resp, th>>

vars == <<clusterVars, otherParts>>

\* flock.New: the Flock objects of a node are numbered as they are created.
\* p is fsm.lock at the moment of the assignment: a second object is created
\* only by a goroutine that saw nil before another one assigned the first.
NewFlock(p) == IF p = 0 THEN 1 ELSE 2

Threads == {"fsm", "get"}

\* a goroutine that is not inside fsm
IdleThread == [pc |-> "idle"]

\* a goroutine entering loadData: its operation and its locals
\*   dfr, obj    the Flock objects of the deferred Close and of TryLockContext
\*   waited      an attempt of TryLockContext's loop has failed
\*   content     what ReadFile returned;  data: the decoded map
\*   buf         saveData's encodedData
\*   err, out    what the call returns
\*   during, pre, post   (Get) the Apply under way when the file was read:
\*               its step, and the key's value before and after that Apply
Entering(op, key, val) ==
    [pc |-> "chk", phase |-> "load", op |-> op, key |-> key, val |-> val,
     dfr |-> 0, obj |-> 0, waited |-> FALSE, content |-> Absent,
     data |-> EmptyMap, buf |-> Absent, err |-> "", out |-> <<>>,
     during |-> "", pre |-> <<>>, post |-> <<>>]

\* a data file left by an earlier run: {"key": "w"}
OldFile == Encode([k \in {KeyLit} |-> ValW])

InitFiles == {Absent, OldFile}

\* no fsm.Snapshot yet.  err, data: what Snapshot returned; of: the data file
\* it read; at: the number of entries applied before it
NoSnapshot ==
    [state |-> "none", err |-> "", data |-> Absent, of |-> Absent, at |-> 0]

\* no fsm.Restore yet.  old: the stream; err: what Restore returned; prior:
\* the data file before the call.  base, from: the data file installed by the
\* latest Restore that succeeded and the number of entries applied before it
NoRestore ==
    [state |-> "none", old |-> Absent, err |-> "", prior |-> Absent,
     base |-> Absent, from |-> 0]

\* package main's store over the data file f, before any call.  ops: the
\* calls made, as commands; ret: what the latest call returned
LocalStart(f) ==
    [file |-> f, file0 |-> f, ops |-> <<>>,
     ret |-> [op |-> "none", key |-> <<>>, err |-> "", out |-> <<>>]]

\* no request.  st, ldr: what the Middleware read from cfg.raft.State() and
\* cfg.raft.Leader() (-1: not read); local, proxied: how often h.ServeHTTP
\* and prxy.ServeHTTP ran for the request; target: the proxy's host
NoRequest ==
    [pc |-> "none", node |-> 0, st |-> "", ldr |-> -1,
     local |-> 0, proxied |-> 0, target |-> 0]

\* NewRaftSetup not called.  param: the raftLeader argument; reported: what
\* cfg.raft.Leader() returned; raftLeader: the variable after line 170;
\* bootstraps, posts: the calls of BootstrapCluster and http.Post made;
\* servers: the Servers of the configuration handed to BootstrapCluster;
\* slept: the time.Sleep is over; delivered: the POST reached the leader;
\* err: the error returned
NotStarted ==
    [pc |-> "none", param |-> "", reported |-> "", raftLeader |-> "",
     bootstraps |-> 0, servers |-> {}, posts |-> 0, slept |-> FALSE,
     delivered |-> FALSE, err |-> ""]

NoCall ==
    [op |-> "none", node |-> 0, key |-> <<>>, val |-> <<>>, idx |-> 0,
     state |-> "returned", err |-> "", out |-> <<>>, resp |-> ""]

\* the cluster after NewRaftSetup on every node
InitStore ==
    /\ role = [n \in Nodes |-> "Follower"]
    /\ log = <<>>
    /\ applied = [n \in Nodes |-> 0]
    /\ file \in [Nodes -> InitFiles]
    /\ file0 = file
    /\ lockPtr = [n \in Nodes |-> 0]
    /\ lockHeld = [n \in Nodes |-> 0]
    /\ call = NoCall
    /\ resp = [n \in Nodes |-> ""]
    /\ th = [n \in Nodes |-> [t \in Threads |-> IdleThread]]

\* no snapshot taken or restored
IdleSnapshots ==
    /\ snapshot = [n \in Nodes |-> NoSnapshot]
    /\ sink = [n \in Nodes |-> Absent]
    /\ restore = [n \in Nodes |-> NoRestore]

\* package main's store is not in use
IdleLocal == local = LocalStart(Absent)

\* nothing is being encoded
IdleCodec == codec = [pc |-> "none", m |-> EmptyMap, text |-> Absent,
                      err |-> "", out |-> EmptyMap]

\* the leadership watch before NewRaftSetup starts it: nothing is waiting in
\* the channel, nothing was received
NoWatch == [pc |-> "none", leaderCh |-> <<>>, got |-> FALSE, isLeader |-> FALSE,
            chance |-> -1, snapshots |-> 0]

\* no request is inside the Middleware, no leader address is known, no
\* NewRaftSetup is under way and no leadership watch runs
IdleHttp ==
    /\ req = NoRequest
    /\ leaderAddr = [n \in Nodes |-> 0]
    /\ boot = [n \in Nodes |-> NotStarted]
    /\ watch = [n \in Nodes |-> NoWatch]

Init == InitStore /\ IdleSnapshots /\ IdleLocal /\ IdleCodec /\ IdleHttp

(***************************************************************************)
(* The consensus module: leadership.                                       *)
(***************************************************************************)
BecomeLeader(n) ==
    /\ \A m \in Nodes : role[m] # "Leader"
    /\ role' = [role EXCEPT ![n] = "Leader"]
    /\ UNCHANGED <<otherParts, log, applied, file, file0, lockPtr, lockHeld, call, resp, th>>

StepDown(n) ==
    /\ role[n] = "Leader"
    /\ role' = [role EXCEPT ![n] = "Follower"]
    /\ UNCHANGED <<otherParts, log, applied, file, file0, lockPtr, lockHeld, call, resp, th>>

(***************************************************************************)
(* The cluster coordinator: Config.Set, Config.Delete, Config.Get.  The    *)
(* client issues its calls one after another.                              *)
(***************************************************************************)
\* a check that lets the call through when no leader is known
NotLeaderWhenLeaderKnown(n) ==
    role[n] # "Leader" /\ \E m \in Nodes : role[m] = "Leader"

\* cfg.raft.State() != raft.Leader
NotLeader(n) == role[n] # "Leader"

\* the Key of the Command Config.Delete(key) builds
DeleteCommandKey(key) == KeyLit

\* l.Error() of the ApplyFuture, once the entry is applied: raft's own error,
\* nil here.  What fsm.Apply returned is l.Response(), which is never read.
FutureError(r) == ""

ConfigSet(n, k, v) ==
    /\ call.state # "pending"
    /\ IF NotLeader(n)
       THEN /\ call' = [NoCall EXCEPT !.op = "set", !.node = n, !.key = k,
                                      !.val = v, !.err = "not leader"]
            /\ log' = log
       ELSE /\ Len(log) < MaxLog
            /\ log' = Append(log, CmdMarshal("set", k, v))
            /\ call' = [NoCall EXCEPT !.op = "set", !.node = n, !.key = k,
                                      !.val = v, !.idx = Len(log) + 1,
                                      !.state = "pending"]
    /\ UNCHANGED <<otherParts, role, applied, file, file0, lockPtr, lockHeld, th, resp>>

ConfigDelete(n, k) ==
    /\ call.state # "pending"
    /\ IF NotLeader(n)
       THEN /\ call' = [NoCall EXCEPT !.op = "delete", !.node = n, !.key = k,
                                      !.err = "not leader"]
            /\ log' = log
       ELSE /\ Len(log) < MaxLog
            /\ log' = Append(log, CmdMarshal("delete", DeleteCommandKey(k), <<>>))
            /\ call' = [NoCall EXCEPT !.op = "delete", !.node = n, !.key = k,
                                      !.idx = Len(log) + 1, !.state = "pending"]
    /\ UNCHANGED <<otherParts, role, applied, file, file0, lockPtr, lockHeld, th, resp>>

\* Config.Get -> fsm.localGet, run with no other caller inside fsm
ConfigGet(n, k) ==
    /\ call.state # "pending"
    /\ \E o \in LocalGet(file[n], k) :
        /\ file' = [file EXCEPT ![n] = o.file]
        /\ call' = [NoCall EXCEPT !.op = "get", !.node = n, !.key = k,
                                  !.err = o.err, !.out = o.out]
    /\ lockPtr' = [lockPtr EXCEPT ![n] = IF @ = 0 THEN NewFlock(@) ELSE @]
    /\ UNCHANGED <<otherParts, role, log, applied, file0, lockHeld, th, resp>>

(***************************************************************************)
(* The consensus module: committed entries reach fsm.Apply in log order.   *)
(***************************************************************************)
\* entries that are no Command of this program
OtherEntries == {Garbage, CmdMarshal("noop", KeyK, ValV)}

CommitOther(d) ==
    /\ Len(log) < MaxLog
    /\ log' = Append(log, d)
    /\ UNCHANGED <<otherParts, role, applied, file, file0, lockPtr, lockHeld, call, th, resp>>

Recognized(data) ==
    /\ ~CmdUnmarshal(data).err
    /\ CmdUnmarshal(data).cmd.Action \in {"set", "delete"}

\* an Apply that changes the data file on the leader only
FsmApplyOnLeaderOnly(n) ==
    /\ applied[n] < Len(log)
    /\ LET i == applied[n] + 1
       IN  \E o \in ApplyOutcomes(file[n], log[i]) :
            /\ file' = [file EXCEPT ![n] = IF role[n] = "Leader" THEN o.file ELSE @]
            /\ applied' = [applied EXCEPT ![n] = i]
            /\ resp' = [resp EXCEPT ![n] = o.resp]
            /\ lockPtr' = [lockPtr EXCEPT ![n] =
                              IF @ = 0 /\ Recognized(log[i]) THEN NewFlock(@) ELSE @]
            /\ call' = IF call.state = "pending" /\ call.idx = i /\ call.node = n
                       THEN [call EXCEPT !.state = "returned",
                                         !.err = FutureError(o.resp),
                                         !.resp = o.resp]
                       ELSE call
    /\ UNCHANGED <<otherParts, role, log, file0, lockHeld, th>>

\* fsm.Apply of the next entry, run with no other caller inside fsm; the
\* ApplyFuture of the node that submitted the entry is answered after it
FsmApply(n) ==
    /\ applied[n] < Len(log)
    /\ LET i == applied[n] + 1
       IN  \E o \in ApplyOutcomes(file[n], log[i]) :
            /\ file' = [file EXCEPT ![n] = o.file]
            /\ applied' = [applied EXCEPT ![n] = i]
            /\ resp' = [resp EXCEPT ![n] = o.resp]
            /\ lockPtr' = [lockPtr EXCEPT ![n] =
                              IF @ = 0 /\ Recognized(log[i]) THEN NewFlock(@) ELSE @]
            /\ call' = IF call.state = "pending" /\ call.idx = i /\ call.node = n
                       THEN [call EXCEPT !.state = "returned",
                                         !.err = FutureError(o.resp),
                                         !.resp = o.resp]
                       ELSE call
    /\ UNCHANGED <<otherParts, role, log, file0, lockHeld, th>>

Next ==
    \/ \E n \in Nodes : BecomeLeader(n)
    \/ \E n \in Nodes : StepDown(n)
    \/ \E n \in Nodes, k \in Keys, v \in Values : ConfigSet(n, k, v)
    \/ \E n \in Nodes, k \in Keys : ConfigDelete(n, k)
    \/ \E n \in Nodes, k \in Keys : ConfigGet(n, k)
    \/ \E d \in OtherEntries : CommitOther(d)
    \/ \E n \in Nodes : FsmApply(n)

Spec == Init /\ [][Next]_vars

(***************************************************************************)
(* Second part: the goroutines inside fsm, step by step.  On a node the    *)
(* consensus module's FSM goroutine ("fsm": Apply, one entry at a time)    *)
(* and an HTTP handler goroutine ("get": Config.Get) run loadData and      *)
(* saveData concurrently.  The steps are those of store/fsm.go and of      *)
(* gofrs/flock v0.8.0, which fsm.go calls:                                 *)
(*   TryLockContext(ctx, d) calls TryLock, and after a failed attempt      *)
(*     waits d and tries again, until ctx is done;                         *)
(*   TryLock returns true at once when this Flock object is already        *)
(*     locked; otherwise it opens the file (creating it) and calls         *)
(*     flock(LOCK_EX|LOCK_NB), which fails when another open descriptor    *)
(*     holds the lock;                                                     *)
(*   Close is Unlock: it releases the lock this Flock object holds.        *)
(* fsm.lock is read and written with no synchronisation; its reads and     *)
(* writes are interleaved here in every order.                             *)
(***************************************************************************)
\* the node whose goroutines are followed
RaceNode == CHOOSE n \in Nodes : \A m \in Nodes : n <= m

InitRace ==
    /\ Init
    /\ \A m \in Nodes \ {RaceNode} : file[m] = Absent

\* between a successful TryLockContext and the release of loadData/saveData
InSection(r) == r.pc \in {"read", "ldret", "trunc", "write", "unlock"}

\* the map localSet / localDelete hand to saveData
Mutated(r) ==
    IF r.op = "set" THEN MapSet(r.data, r.key, r.val) ELSE MapDelete(r.data, r.key)

\* Unlock of Flock object o: a no-op unless o holds the lock
Unlock(held, o) == IF o # 0 /\ held = o THEN 0 ELSE held

\* fsm.Apply returns r: the entry is applied, the submitter's future answered
FinishApply(n, r) ==
    /\ applied' = [applied EXCEPT ![n] = @ + 1]
    /\ resp' = [resp EXCEPT ![n] = r]
    /\ call' = IF call.state = "pending" /\ call.idx = applied[n] + 1 /\ call.node = n
               THEN [call EXCEPT !.state = "returned", !.err = FutureError(r),
                                 !.resp = r]
               ELSE call

\* fsm.Apply is called with the next committed entry
ApplyBegin(n) ==
    /\ th[n]["fsm"].pc = "idle"
    /\ applied[n] < Len(log)
    /\ LET u == CmdUnmarshal(log[applied[n] + 1])
       IN  IF Recognized(log[applied[n] + 1])
           THEN /\ th' = [th EXCEPT ![n]["fsm"] =
                            Entering(u.cmd.Action, u.cmd.Key, u.cmd.Value)]
                /\ UNCHANGED <<otherParts, applied, call, resp>>
           ELSE /\ FinishApply(n, "")
                /\ th' = th
    /\ UNCHANGED <<otherParts, role, log, file, file0, lockPtr, lockHeld>>

\* Config.Get(ctx, key) is called by an HTTP handler
GetBegin(n, k) ==
    /\ th[n]["get"].pc = "idle"
    /\ th' = [th EXCEPT ![n]["get"] = Entering("get", k, <<>>)]
    /\ UNCHANGED <<otherParts, role, log, applied, file, file0, lockPtr, lockHeld, call, resp>>

\* if f.lock == nil
LockChk(n, t) ==
    /\ th[n][t].pc = "chk"
    /\ th' = [th EXCEPT ![n][t].pc = IF lockPtr[n] = 0 THEN "new" ELSE "dfr",
                        ![n][t].waited = FALSE]
    /\ UNCHANGED <<otherParts, role, log, applied, file, file0, lockPtr, lockHeld, call, resp>>

\* f.lock = flock.New(f.dataFile)
LockNew(n, t) ==
    /\ th[n][t].pc = "new"
    /\ lockPtr' = [lockPtr EXCEPT ![n] = NewFlock(@)]
    /\ th' = [th EXCEPT ![n][t].pc = "dfr"]
    /\ UNCHANGED <<otherParts, role, log, applied, file, file0, lockHeld, call, resp>>

\* defer f.lock.Close(): the receiver is evaluated now
LockDfr(n, t) ==
    /\ th[n][t].pc = "dfr"
    /\ th' = [th EXCEPT ![n][t].pc = "ev", ![n][t].dfr = lockPtr[n]]
    /\ UNCHANGED <<otherParts, role, log, applied, file, file0, lockPtr, lockHeld, call, resp>>

\* f.lock.TryLockContext(...): the receiver is evaluated
LockEv(n, t) ==
    /\ th[n][t].pc = "ev"
    /\ th' = [th EXCEPT ![n][t].pc = "try", ![n][t].obj = lockPtr[n]]
    /\ UNCHANGED <<otherParts, role, log, applied, file, file0, lockPtr, lockHeld, call, resp>>

\* one attempt of TryLockContext's loop
LockTry(n, t) ==
    LET r == th[n][t]
        next == IF r.phase = "load" THEN "read" ELSE "trunc"
    IN  /\ r.pc = "try"
        /\ IF lockHeld[n] = r.obj
           THEN /\ th' = [th EXCEPT ![n][t].pc = next]
                /\ UNCHANGED <<otherParts, file, lockHeld>>
           ELSE /\ file' = [file EXCEPT ![n] = AfterOpen(@)]
                /\ IF lockHeld[n] = 0
                   THEN /\ lockHeld' = [lockHeld EXCEPT ![n] = r.obj]
                        /\ th' = [th EXCEPT ![n][t].pc = next]
                   ELSE /\ lockHeld' = lockHeld
                        /\ th' = [th EXCEPT ![n][t].waited = TRUE]
        /\ UNCHANGED <<otherParts, role, log, applied, file0, lockPtr, call, resp>>

\* the HTTP request's context is done while TryLockContext is looping:
\* loadData returns "trylock: ..." and its deferred Close runs
GetCancel(n) ==
    LET r == th[n]["get"]
    IN  /\ r.pc = "try"
        /\ lockHeld' = [lockHeld EXCEPT ![n] = Unlock(@, r.dfr)]
        /\ th' = [th EXCEPT ![n]["get"].pc = "done", ![n]["get"].err = "trylock"]
        /\ UNCHANGED <<otherParts, role, log, applied, file, file0, lockPtr, call, resp>>

\* loadData, locked: os.Stat (and the write of the empty mapping), ReadFile.
\* A Get notes the Apply whose saveData is under way at this moment.
LoadRead(n, t) ==
    LET r == th[n][t]
        a == th[n]["fsm"]
        g == AfterStat(file[n])
    IN  /\ r.pc = "read"
        /\ file' = [file EXCEPT ![n] = g]
        /\ th' = [th EXCEPT ![n][t] =
                    IF t = "get" /\ a.pc # "idle" /\ a.phase = "save"
                    THEN [r EXCEPT !.pc = "ldret", !.content = g,
                                   !.during = a.pc,
                                   !.pre = MapGet(a.data, r.key),
                                   !.post = MapGet(Mutated(a), r.key)]
                    ELSE [r EXCEPT !.pc = "ldret", !.content = g]]
        /\ UNCHANGED <<otherParts, role, log, applied, file0, lockPtr, lockHeld, call, resp>>

\* return decode(content), and the deferred f.lock.Close(); then the caller:
\* localGet returns data[key]; localSet / localDelete change the map and
\* call saveData, which encodes it first
LoadRet(n, t) ==
    LET r == th[n][t]
    IN  /\ r.pc = "ldret"
        /\ lockHeld' = [lockHeld EXCEPT ![n] = Unlock(@, r.dfr)]
        /\ \E d \in DecodeOutcomes(r.content) :
            IF t = "get"
            THEN /\ th' = [th EXCEPT ![n][t].pc = "done", ![n][t].err = d.err,
                                     ![n][t].out = IF d.err # "" THEN <<>>
                                                   ELSE MapGet(d.m, r.key)]
                 /\ UNCHANGED <<otherParts, applied, call, resp>>
            ELSE IF d.err # ""
            THEN /\ FinishApply(n, d.err)
                 /\ th' = [th EXCEPT ![n][t] = IdleThread]
            ELSE /\ th' = [th EXCEPT ![n][t] =
                             [r EXCEPT !.pc = "chk", !.phase = "save", !.data = d.m,
                                       !.buf = Encode(Mutated([r EXCEPT !.data = d.m]))]]
                 /\ UNCHANGED <<otherParts, applied, call, resp>>
        /\ UNCHANGED <<otherParts, role, log, file, file0, lockPtr>>

\* ioutil.WriteFile opens the file with O_TRUNC ...
SaveTrunc(n, t) ==
    /\ th[n][t].pc = "trunc"
    /\ file' = [file EXCEPT ![n] = ZeroBytes]
    /\ th' = [th EXCEPT ![n][t].pc = "write"]
    /\ UNCHANGED <<otherParts, role, log, applied, file0, lockPtr, lockHeld, call, resp>>

\* ... and writes the encoded map
SaveWrite(n, t) ==
    /\ th[n][t].pc = "write"
    /\ file' = [file EXCEPT ![n] = th[n][t].buf]
    /\ th' = [th EXCEPT ![n][t].pc = "unlock"]
    /\ UNCHANGED <<otherParts, role, log, applied, file0, lockPtr, lockHeld, call, resp>>

\* f.lock.Unlock()
SaveUnlock(n, t) ==
    /\ th[n][t].pc = "unlock"
    /\ lockHeld' = [lockHeld EXCEPT ![n] = Unlock(@, lockPtr[n])]
    /\ th' = [th EXCEPT ![n][t].pc = "svret"]
    /\ UNCHANGED <<otherParts, role, log, applied, file, file0, lockPtr, call, resp>>

\* return nil, and the deferred f.lock.Close(); Apply returns
SaveRet(n, t) ==
    /\ th[n][t].pc = "svret"
    /\ lockHeld' = [lockHeld EXCEPT ![n] = Unlock(@, th[n][t].dfr)]
    /\ FinishApply(n, "")
    /\ th' = [th EXCEPT ![n][t] = IdleThread]
    /\ UNCHANGED <<otherParts, role, log, file, file0, lockPtr>>

\* Config.Get has returned; the handler goroutine ends
GetEnd(n) ==
    /\ th[n]["get"].pc = "done"
    /\ th' = [th EXCEPT ![n]["get"] = IdleThread]
    /\ UNCHANGED <<otherParts, role, log, applied, file, file0, lockPtr, lockHeld, call, resp>>

NextRace ==
    \/ BecomeLeader(RaceNode)
    \/ \E k \in Keys, v \in Values : ConfigSet(RaceNode, k, v)
    \/ \E k \in Keys : ConfigDelete(RaceNode, k)
    \/ ApplyBegin(RaceNode)
    \/ \E k \in Keys : GetBegin(RaceNode, k)
    \/ \E t \in Threads : LockChk(RaceNode, t)
    \/ \E t \in Threads : LockNew(RaceNode, t)
    \/ \E t \in Threads : LockDfr(RaceNode, t)
    \/ \E t \in Threads : LockEv(RaceNode, t)
    \/ \E t \in Threads : LockTry(RaceNode, t)
    \/ GetCancel(RaceNode)
    \/ \E t \in Threads : LoadRead(RaceNode, t)
    \/ \E t \in Threads : LoadRet(RaceNode, t)
    \/ SaveTrunc(RaceNode, "fsm")
    \/ SaveWrite(RaceNode, "fsm")
    \/ SaveUnlock(RaceNode, "fsm")
    \/ SaveRet(RaceNode, "fsm")
    \/ GetEnd(RaceNode)

SpecRace == InitRace /\ [][NextRace]_vars

(***************************************************************************)
(* Third part: snapshots.  The consensus module calls fsm.Snapshot,        *)
(* fsm.Restore and fsm.Apply of a node from one goroutine, one at a time;  *)
(* fsmSnapshot.Persist copies the snapshot to the sink.                    *)
(***************************************************************************)
\* a Snapshot that marshals the map without encode's base64
SnapshotOutcomesWithoutEncode(f) ==
    LET l == LoadData(f)
    IN  {IF r.err # ""
         THEN [file |-> l.file, err |-> r.err, data |-> Absent]
         ELSE [file |-> l.file, err |-> "", data |-> JsonMarshalMap(r.m)] :
             r \in l.results}

\* fsm.Snapshot: the outcomes [file, err, data]; data is fsmSnapshot.data
SnapshotOutcomes(f) ==
    LET l == LoadData(f)
    IN  {IF r.err # ""
         THEN [file |-> l.file, err |-> r.err, data |-> Absent]
         ELSE [file |-> l.file, err |-> "", data |-> Encode(r.m)] :
             r \in l.results}

\* a stream whose Read fails
Unreadable == [kind |-> "unreadable", members |-> <<>>]

\* ioutil.ReadAll(old)
ReadAll(old) ==
    IF old.kind = "unreadable"
    THEN [err |-> "read", b |-> ZeroBytes]
    ELSE [err |-> "", b |-> old]

\* the entries of a text that decode, up to the first one that does not
RECURSIVE DecodablePrefix(_)
DecodablePrefix(ms) ==
    IF ms = <<>> THEN EmptyMap
    ELSE LET n == Len(ms)
             before == SubSeq(ms, 1, n - 1)
             bad(e) == B64Decode(e[1]).err \/ B64Decode(e[2]).err
         IN  IF \E i \in 1..n : bad(ms[i])
             THEN DecodablePrefix(before)
             ELSE MapSet(DecodablePrefix(before),
                         B64Decode(ms[n][1]).bytes, B64Decode(ms[n][2]).bytes)

\* a Restore that adds the stream's entries to the map already in the file
RestoreOutcomesMerging(f, old) ==
    LET r == ReadAll(old)
        cur == (CHOOSE l \in LoadData(f).results : TRUE).m
    IN  IF r.err # "" THEN {[file |-> f, err |-> r.err]}
        ELSE {IF d.err # ""
              THEN [file |-> f, err |-> d.err]
              ELSE [file |-> SaveData(AfterOpen(f),
                                      [k \in DOMAIN cur \cup DOMAIN d.m |->
                                          IF k \in DOMAIN d.m THEN d.m[k]
                                          ELSE cur[k]]),
                    err |-> ""] :
                  d \in DecodeOutcomes(r.b)}

\* a Restore that saves the entries it could decode before it reports the
\* entry it could not
RestoreOutcomesSavingDecoded(f, old) ==
    LET r == ReadAll(old)
    IN  IF r.err # "" THEN {[file |-> f, err |-> r.err]}
        ELSE {IF d.err # ""
              THEN [file |-> IF r.b.kind = "object"
                             THEN SaveData(AfterOpen(f),
                                           DecodablePrefix(r.b.members))
                             ELSE f,
                    err |-> d.err]
              ELSE [file |-> SaveData(AfterOpen(f), d.m), err |-> ""] :
                  d \in DecodeOutcomes(r.b)}

\* fsm.Restore: the outcomes [file, err].  The data file is touched by
\* saveData only, after ReadAll and decode have both succeeded.
RestoreOutcomes(f, old) ==
    LET r == ReadAll(old)
    IN  IF r.err # "" THEN {[file |-> f, err |-> r.err]}
        ELSE {IF d.err # ""
              THEN [file |-> f, err |-> d.err]
              ELSE [file |-> SaveData(AfterOpen(f), d.m), err |-> ""] :
                  d \in DecodeOutcomes(r.b)}

\* a snapshot of another cluster member: {"k": "w"}
PeerBlob == Encode([k \in {KeyK} |-> ValW])

\* a stream whose second entry is no base64: {"aw==": "dg==", "a2V5": "!"}
BadBlob ==
    [kind |-> "object",
     members |-> << <<B64Encode(KeyK), B64Encode(ValV)>>,
                    <<B64Encode(KeyLit), <<33>> >> >>]

\* the streams the consensus module may hand to Restore on a node: what a
\* node persisted, a peer's snapshot, and streams that are damaged
RestoreStreams ==
    {sink[m] : m \in {x \in Nodes : sink[x] # Absent}}
        \cup {PeerBlob, BadBlob, ZeroBytes, Unreadable}

\* the entries committed in this part
SnapEntries ==
    {CmdMarshal("set", KeyK, ValV), CmdMarshal("delete", KeyLit, <<>>), Garbage}

\* a Snapshot that returns the data file the node started with
FsmSnapshotOfStartFile(n) ==
    /\ \E o \in SnapshotOutcomes(file0[n]) :
        /\ file' = [file EXCEPT ![n] = AfterOpen(@)]
        /\ snapshot' = [snapshot EXCEPT ![n] =
                           [state |-> "taken", err |-> o.err, data |-> o.data,
                            of |-> AfterOpen(file[n]), at |-> applied[n]]]
    /\ lockPtr' = [lockPtr EXCEPT ![n] = IF @ = 0 THEN NewFlock(@) ELSE @]
    /\ UNCHANGED <<role, log, applied, file0, lockHeld, call, resp, th,
                   sink, restore, local, codec, httpVars>>

\* fsm.Snapshot on node n
FsmSnapshot(n) ==
    /\ \E o \in SnapshotOutcomes(file[n]) :
        /\ file' = [file EXCEPT ![n] = o.file]
        /\ snapshot' = [snapshot EXCEPT ![n] =
                           [state |-> "taken", err |-> o.err, data |-> o.data,
                            of |-> o.file, at |-> applied[n]]]
    /\ lockPtr' = [lockPtr EXCEPT ![n] = IF @ = 0 THEN NewFlock(@) ELSE @]
    /\ UNCHANGED <<role, log, applied, file0, lockHeld, call, resp, th,
                   sink, restore, local, codec, httpVars>>

\* fsmSnapshot.Persist: sink.Write(s.data) succeeds or fails; a sink whose
\* write failed is discarded by the consensus module
Persist(n) ==
    /\ snapshot[n].state = "taken"
    /\ snapshot[n].err = ""
    /\ \E ok \in BOOLEAN :
        /\ sink' = [sink EXCEPT ![n] = IF ok THEN snapshot[n].data ELSE @]
        /\ snapshot' = [snapshot EXCEPT ![n].state =
                           IF ok THEN "persisted" ELSE "failed"]
    /\ UNCHANGED <<clusterVars, restore, local, codec, httpVars>>

\* fsm.Restore(old) on node n
FsmRestore(n, old) ==
    /\ \E o \in RestoreOutcomes(file[n], old) :
        /\ file' = [file EXCEPT ![n] = o.file]
        /\ restore' = [restore EXCEPT ![n] =
                          [state |-> "done", old |-> old, err |-> o.err,
                           prior |-> file[n],
                           base |-> IF o.err = "" THEN o.file ELSE @.base,
                           from |-> IF o.err = "" THEN applied[n] ELSE @.from]]
        /\ lockPtr' = [lockPtr EXCEPT ![n] =
                          IF @ = 0 /\ o.err = "" THEN NewFlock(@) ELSE @]
    /\ UNCHANGED <<role, log, applied, file0, lockHeld, call, resp, th,
                   snapshot, sink, local, codec, httpVars>>

NextSnap ==
    \/ \E d \in SnapEntries : CommitOther(d)
    \/ FsmApply(RaceNode)
    \/ FsmSnapshot(RaceNode)
    \/ Persist(RaceNode)
    \/ \E old \in RestoreStreams : FsmRestore(RaceNode, old)

SpecSnap == InitRace /\ [][NextSnap]_vars

(***************************************************************************)
(* Fourth part: the store of package main (server.go: Set, Get, Delete     *)
(* over loadData / saveData, with no lock), called one call at a time.     *)
(***************************************************************************)
MaxCalls == 3

LocalValues == {ValV, ValW}

\* a loadData that reads the file without creating it when it is missing
MainLoadDataNoCreate(f) ==
    [file |-> f, results |-> DecodeOutcomes(f)]

\* loadData of package main: os.Stat, WriteFile of the encoded empty mapping
\* when the file is missing, ReadFile, decode
MainLoadData(f) ==
    LET g == AfterStat(f)
    IN  [file |-> g, results |-> DecodeOutcomes(g)]

\* saveData of package main: the file it leaves
MainSaveData(data) == Encode(data)

\* the ops, the latest return, and the file after a call
Called(l, cmd, f, op, key, err, out) ==
    [l EXCEPT !.file = f,
              !.ops = IF cmd.kind = "object" THEN Append(@, cmd) ELSE @,
              !.ret = [op |-> op, key |-> key, err |-> err, out |-> out]]

Set(key, value) ==
    /\ Len(local.ops) < MaxCalls
    /\ LET l == MainLoadData(local.file)
       IN  \E r \in l.results :
            local' =
                IF r.err # ""
                THEN Called(local, Garbage, l.file, "set", key, r.err, <<>>)
                ELSE Called(local, CmdMarshal("set", key, value),
                            MainSaveData(MapSet(r.m, key, value)),
                            "set", key, "", <<>>)
    /\ UNCHANGED <<clusterVars, snapVars, codec, httpVars>>

Get(key) ==
    /\ LET l == MainLoadData(local.file)
       IN  \E r \in l.results :
            local' =
                IF r.err # ""
                THEN Called(local, Garbage, l.file, "get", key, r.err, <<>>)
                ELSE Called(local, Garbage, l.file, "get", key, "",
                            MapGet(r.m, key))
    /\ UNCHANGED <<clusterVars, snapVars, codec, httpVars>>

Delete(key) ==
    /\ Len(local.ops) < MaxCalls
    /\ LET l == MainLoadData(local.file)
       IN  \E r \in l.results :
            local' =
                IF r.err # ""
                THEN Called(local, Garbage, l.file, "delete", key, r.err, <<>>)
                ELSE Called(local, CmdMarshal("delete", key, <<>>),
                            MainSaveData(MapDelete(r.m, key)),
                            "delete", key, "", <<>>)
    /\ UNCHANGED <<clusterVars, snapVars, codec, httpVars>>

\* the data file is missing or was left by an earlier run
InitLocal ==
    /\ InitStore /\ file = [n \in Nodes |-> Absent]
    /\ IdleSnapshots /\ IdleCodec /\ IdleHttp
    /\ local \in {LocalStart(f) : f \in InitFiles}

NextLocal ==
    \/ \E k \in Keys, v \in LocalValues : Set(k, v)
    \/ \E k \in Keys : Get(k)
    \/ \E k \in Keys : Delete(k)

SpecLocal == InitLocal /\ [][NextLocal]_vars

(***************************************************************************)
(* Fifth part: encode and decode (store/fsm.go; package main has the same  *)
(* two functions) on their own, applied to a mapping.                      *)
(***************************************************************************)
\* keys of 0 to 3 bytes, one of them no valid UTF-8
CodecKeys == {<<>>, KeyK, <<255, 0>>, KeyLit}

\* values: "", "v", and two bytes whose base64 uses '-' and '_'
CodecValues == {<<>>, ValV, <<251, 255>>}

\* the mappings handed to encode
CodecMaps == UNION {[S -> CodecValues] : S \in SUBSET CodecKeys}

InitCodec ==
    /\ InitStore /\ file = [n \in Nodes |-> Absent]
    /\ IdleSnapshots /\ IdleLocal /\ IdleHttp
    /\ \E m \in CodecMaps :
        codec = [pc |-> "start", m |-> m, text |-> Absent,
                 err |-> "", out |-> EmptyMap]

\* encodedData, err := encode(data)
EncodeStep ==
    /\ codec.pc = "start"
    /\ codec' = [codec EXCEPT !.pc = "encoded", !.text = Encode(codec.m)]
    /\ UNCHANGED <<clusterVars, snapVars, local, httpVars>>

\* data, err := decode(encodedData)
DecodeStep ==
    /\ codec.pc = "encoded"
    /\ \E d \in DecodeOutcomes(codec.text) :
        codec' = [codec EXCEPT !.pc = "decoded", !.err = d.err, !.out = d.m]
    /\ UNCHANGED <<clusterVars, snapVars, local, httpVars>>

NextCodec == EncodeStep \/ DecodeStep

SpecCodec == InitCodec /\ [][NextCodec]_vars

(***************************************************************************)
(* Sixth part: request routing (Config.Middleware).  The consensus module  *)
(* changes a node's state and the leader address it knows while a request  *)
(* is inside the Middleware, which reads the two one after the other.      *)
(***************************************************************************)
\* node n wins an election: it knows itself as the leader
ElectLeader(n) ==
    /\ \A m \in Nodes : role[m] # "Leader"
    /\ role' = [role EXCEPT ![n] = "Leader"]
    /\ leaderAddr' = [leaderAddr EXCEPT ![n] = n]
    /\ UNCHANGED <<log, applied, file, file0, lockPtr, lockHeld, call, resp, th,
                   snapVars, local, codec, req, boot, watch>>

\* the leader n steps down and knows no leader
Resign(n) ==
    /\ role[n] = "Leader"
    /\ role' = [role EXCEPT ![n] = "Follower"]
    /\ leaderAddr' = [leaderAddr EXCEPT ![n] = 0]
    /\ UNCHANGED <<log, applied, file, file0, lockPtr, lockHeld, call, resp, th,
                   snapVars, local, codec, req, boot, watch>>

\* a node that is not leader hears from the leader a
LearnLeader(n, a) ==
    /\ role[n] # "Leader"
    /\ role[a] = "Leader"
    /\ leaderAddr[n] # a
    /\ leaderAddr' = [leaderAddr EXCEPT ![n] = a]
    /\ UNCHANGED <<clusterVars, snapVars, local, codec, req, boot, watch>>

\* a node that is not leader stops hearing from the leader it knew
ForgetLeader(n) ==
    /\ role[n] # "Leader"
    /\ leaderAddr[n] # 0
    /\ leaderAddr' = [leaderAddr EXCEPT ![n] = 0]
    /\ UNCHANGED <<clusterVars, snapVars, local, codec, req, boot, watch>>

\* a client request reaches the handler the Middleware returned on node n
Arrive(n) ==
    /\ req.pc \in {"none", "done"}
    /\ req' = [NoRequest EXCEPT !.pc = "state", !.node = n]
    /\ UNCHANGED <<clusterVars, snapVars, local, codec, leaderAddr, boot, watch>>

\* if cfg.raft.State() != raft.Leader
ReadState ==
    /\ req.pc = "state"
    /\ req' = [req EXCEPT !.st = role[req.node],
                          !.pc = IF role[req.node] # "Leader"
                                 THEN "leader" ELSE "local"]
    /\ UNCHANGED <<clusterVars, snapVars, local, codec, leaderAddr, boot, watch>>

\* a Middleware that hands the request to the local handler whatever the
\* leader address is
ReadLeaderServingLocally ==
    /\ req.pc = "leader"
    /\ req' = [req EXCEPT !.ldr = leaderAddr[req.node], !.pc = "local"]
    /\ UNCHANGED <<clusterVars, snapVars, local, codec, leaderAddr, boot, watch>>

\* ldr := cfg.raft.Leader(); if ldr == ""
ReadLeader ==
    /\ req.pc = "leader"
    /\ req' = [req EXCEPT !.ldr = leaderAddr[req.node],
                          !.pc = IF leaderAddr[req.node] = 0
                                 THEN "local" ELSE "proxy"]
    /\ UNCHANGED <<clusterVars, snapVars, local, codec, leaderAddr, boot, watch>>

\* h.ServeHTTP(w, r); return
ServeLocal ==
    /\ req.pc = "local"
    /\ req' = [req EXCEPT !.local = @ + 1, !.pc = "done"]
    /\ UNCHANGED <<clusterVars, snapVars, local, codec, leaderAddr, boot, watch>>

\* the reverse proxy built for the address read serves the request; return
ServeProxy ==
    /\ req.pc = "proxy"
    /\ req' = [req EXCEPT !.proxied = @ + 1, !.target = req.ldr, !.pc = "done"]
    /\ UNCHANGED <<clusterVars, snapVars, local, codec, leaderAddr, boot, watch>>

InitRoute ==
    /\ InitStore /\ file = [n \in Nodes |-> Absent]
    /\ IdleSnapshots /\ IdleLocal /\ IdleCodec /\ IdleHttp

NextRoute ==
    \/ \E n \in Nodes : ElectLeader(n)
    \/ \E n \in Nodes : Resign(n)
    \/ \E n \in Nodes, a \in Nodes : LearnLeader(n, a)
    \/ \E n \in Nodes : ForgetLeader(n)
    \/ \E n \in Nodes : Arrive(n)
    \/ ReadState
    \/ ReadLeader
    \/ ServeLocal
    \/ ServeProxy

SpecRoute == InitRoute /\ [][NextRoute]_vars

(***************************************************************************)
(* Seventh part: startup (NewRaftSetup), step by step on every node.       *)
(***************************************************************************)
\* RAFT_LEADER: unset, or the HTTP address of the leader
LeaderParams == {"", "http://leader:8080"}

\* cfg.raft.Leader() right after NewRaft: "" or the leader's transport address
ReportedLeaders == {"", "leader:8081"}

\* http.Post can reach a URL with a scheme only
Reachable(url) == url = "http://leader:8080"

\* NewRaftSetup(storagePath, host, raftPort, raftLeader) is called
StartSetup(n, rl) ==
    /\ boot[n].pc = "none"
    /\ boot' = [boot EXCEPT ![n] = [NotStarted EXCEPT !.pc = "setup",
                                                      !.param = rl,
                                                      !.raftLeader = rl]]
    /\ UNCHANGED <<clusterVars, snapVars, local, codec, req, leaderAddr, watch>>

\* the storage directory, a store, the transport or NewRaft fails
SetupFails(n) ==
    /\ boot[n].pc = "setup"
    /\ boot' = [boot EXCEPT ![n].pc = "returned", ![n].err = "setup"]
    /\ UNCHANGED <<clusterVars, snapVars, local, codec, req, leaderAddr, watch>>

\* cfg.raft = node; if cfg.raft.Leader() != "" { raftLeader = ... }
ReadRaftLeader(n, a) ==
    /\ boot[n].pc = "setup"
    /\ boot' = [boot EXCEPT ![n].pc = "bootstrap", ![n].reported = a,
                            ![n].raftLeader = IF a # "" THEN a ELSE @]
    /\ UNCHANGED <<clusterVars, snapVars, local, codec, req, leaderAddr, watch>>

\* a startup that bootstraps whether or not a leader address is in effect
BootstrapAlways(n) ==
    /\ boot[n].pc = "bootstrap"
    /\ boot' = [boot EXCEPT ![n].pc = "join", ![n].bootstraps = @ + 1,
                            ![n].servers = {n}]
    /\ UNCHANGED <<clusterVars, snapVars, local, codec, req, leaderAddr, watch>>

\* if raftLeader == "" { cfg.raft.BootstrapCluster(raftConfig) }; the result
\* of BootstrapCluster is not looked at
Bootstrap(n) ==
    /\ boot[n].pc = "bootstrap"
    /\ boot' = [boot EXCEPT ![n].pc = "join",
                            ![n].bootstraps =
                                IF boot[n].raftLeader = "" THEN @ + 1 ELSE @,
                            ![n].servers =
                                IF boot[n].raftLeader = "" THEN {n} ELSE @]
    /\ UNCHANGED <<clusterVars, snapVars, local, codec, req, leaderAddr, watch>>

\* if raftLeader != "" { time.Sleep(10 * time.Second) ... }, else return cfg
Settle(n) ==
    /\ boot[n].pc = "join"
    /\ boot' = IF boot[n].raftLeader # ""
               THEN [boot EXCEPT ![n].pc = "post", ![n].slept = TRUE]
               ELSE [boot EXCEPT ![n].pc = "returned"]
    /\ UNCHANGED <<clusterVars, snapVars, local, codec, req, leaderAddr, watch>>

\* http.Post(raftLeader+"/raft/add", ...): an error returns from NewRaftSetup,
\* any response returns cfg
Post(n) ==
    /\ boot[n].pc = "post"
    /\ \E ok \in {d \in BOOLEAN : d => Reachable(boot[n].raftLeader)} :
        boot' = [boot EXCEPT ![n].pc = "returned", ![n].posts = @ + 1,
                             ![n].delivered = ok,
                             ![n].err = IF ok THEN "" ELSE "failed adding self"]
    /\ UNCHANGED <<clusterVars, snapVars, local, codec, req, leaderAddr, watch>>

InitBoot ==
    /\ InitStore /\ file = [n \in Nodes |-> Absent]
    /\ IdleSnapshots /\ IdleLocal /\ IdleCodec /\ IdleHttp

NextBoot ==
    \/ \E n \in Nodes, rl \in LeaderParams : StartSetup(n, rl)
    \/ \E n \in Nodes : SetupFails(n)
    \/ \E n \in Nodes, a \in ReportedLeaders : ReadRaftLeader(n, a)
    \/ \E n \in Nodes : Bootstrap(n)
    \/ \E n \in Nodes : Settle(n)
    \/ \E n \in Nodes : Post(n)

SpecBoot == InitBoot /\ [][NextBoot]_vars

(***************************************************************************)
(* Eighth part: the leadership watch (NewRaftSetup's goroutine on          *)
(* cfg.raft.LeaderCh()).  The consensus module puts true in the channel    *)
(* when the node gains leadership and false when it loses it; the channel  *)
(* keeps the latest notification that was not yet received.                *)
(***************************************************************************)
\* rand.Int() % 10 of a non-negative rand.Int()
Chances == 0 .. 9

\* leaderCh := cfg.raft.LeaderCh(); go func() { for { select { ...
StartWatch(n) ==
    /\ watch[n].pc = "none"
    /\ watch' = [watch EXCEPT ![n].pc = "select"]
    /\ UNCHANGED <<clusterVars, snapVars, local, codec, req, leaderAddr, boot>>

\* the consensus module: the node gains (b) or loses (~b) leadership and the
\* change is notified on the channel
Notify(n, b) ==
    /\ b <=> role[n] # "Leader"
    /\ b => \A m \in Nodes : role[m] # "Leader"
    /\ role' = [role EXCEPT ![n] = IF b THEN "Leader" ELSE "Follower"]
    /\ watch' = [watch EXCEPT ![n].leaderCh = <<b>>]
    /\ UNCHANGED <<log, applied, file, file0, lockPtr, lockHeld, call, resp, th>>
    /\ UNCHANGED <<snapVars, local, codec, req, leaderAddr, boot>>

\* case isLeader := <-leaderCh
Receive(n) ==
    /\ watch[n].pc = "select"
    /\ watch[n].leaderCh # <<>>
    /\ watch' = [watch EXCEPT ![n] = [pc |-> "test", leaderCh |-> <<>>,
                                      got |-> TRUE,
                                      isLeader |-> watch[n].leaderCh[1],
                                      chance |-> -1, snapshots |-> 0]]
    /\ UNCHANGED <<clusterVars, snapVars, local, codec, req, leaderAddr, boot>>

\* a watch that goes on to draw its chance whatever the notification says
TestLeaderIgnoringValue(n) ==
    /\ watch[n].pc = "test"
    /\ watch' = [watch EXCEPT ![n].pc = "roll"]
    /\ UNCHANGED <<clusterVars, snapVars, local, codec, req, leaderAddr, boot>>

\* if isLeader { log.Info("cluster leadership acquired") ... }
TestLeader(n) ==
    /\ watch[n].pc = "test"
    /\ watch' = [watch EXCEPT ![n].pc = IF watch[n].isLeader THEN "roll"
                                        ELSE "select"]
    /\ UNCHANGED <<clusterVars, snapVars, local, codec, req, leaderAddr, boot>>

\* chance := rand.Int() % 10; if chance == 0 { ...
Roll(n, c) ==
    /\ watch[n].pc = "roll"
    /\ watch' = [watch EXCEPT ![n].chance = c,
                              ![n].pc = IF c = 0 THEN "snap" ELSE "select"]
    /\ UNCHANGED <<clusterVars, snapVars, local, codec, req, leaderAddr, boot>>

\* cfg.raft.Snapshot(): a snapshot is requested; the future is dropped
RequestSnapshot(n) ==
    /\ watch[n].pc = "snap"
    /\ watch' = [watch EXCEPT ![n].pc = "select", ![n].snapshots = @ + 1]
    /\ UNCHANGED <<clusterVars, snapVars, local, codec, req, leaderAddr, boot>>

InitWatch ==
    /\ InitStore /\ file = [n \in Nodes |-> Absent]
    /\ IdleSnapshots /\ IdleLocal /\ IdleCodec /\ IdleHttp

NextWatch ==
    \/ \E n \in Nodes : StartWatch(n)
    \/ \E n \in Nodes, b \in BOOLEAN : Notify(n, b)
    \/ \E n \in Nodes : Receive(n)
    \/ \E n \in Nodes : TestLeader(n)
    \/ \E n \in Nodes, c \in Chances : Roll(n, c)
    \/ \E n \in Nodes : RequestSnapshot(n)

SpecWatch == InitWatch /\ [][NextWatch]_vars

(***************************************************************************)
(* Properties of the cluster (Spec).                                       *)
(***************************************************************************)
\* the step is a call of Config.Set or Config.Delete on node n
WriteCall(n) ==
    \/ \E k \in Keys, v \in Values : ConfigSet(n, k, v)
    \/ \E k \in Keys : ConfigDelete(n, k)

\* C1: a call of Config.Set or Config.Delete on a node whose role is not
\* Leader returns "not leader", appends nothing to the consensus log and
\* leaves the data file of every node as it was.
C1_LeaderGating ==
    [][\A n \in Nodes :
          (WriteCall(n) /\ role[n] # "Leader")
              => /\ call'.state = "returned"
                 /\ call'.err = "not leader"
                 /\ log' = log
                 /\ file' = file]_vars

\* a write was refused on a non-leader while another node leads a cluster
\* that holds applied entries
C1_Witness ==
    /\ call.op \in {"set", "delete"}
    /\ call.err = "not leader"
    /\ role[call.node] # "Leader"
    /\ \E m \in Nodes : role[m] = "Leader" /\ applied[m] > 0

\* C2: the Delete command Config.Delete(k) submits carries the caller's k
\* as its key.
C2_DeleteCarriesCallerKey ==
    (call.op = "delete" /\ call.idx > 0)
        => CmdUnmarshal(log[call.idx]).cmd.Key = call.key

\* what every loadData reads from a data file: a missing file is created
\* empty by the lock before it is read
AsRead(f) == AfterOpen(f)

\* C3: two nodes that started from the same data file (in particular from
\* none) and have had fsm.Apply run on the same sequence of committed
\* entries hold data files with identical contents.
C3_Convergence ==
    \A a, b \in Nodes :
        (file0[a] = file0[b] /\ applied[a] = applied[b])
            => AsRead(file[a]) = AsRead(file[b])

\* both nodes started with no data file and have applied the same two
\* entries, the first a Set or Delete
C3_Witness ==
    /\ \A n \in Nodes : file0[n] = Absent /\ applied[n] = 2
    /\ Recognized(log[1])
    /\ file[1] = file[2]

\* the mapping a data file stands for: a missing file (and the empty file
\* the lock leaves in its place) is the empty mapping
DurableMap(f) ==
    IF f.kind = "object"
    THEN (CHOOSE d \in DecodeOutcomes(f) : TRUE).m
    ELSE EmptyMap

\* the Set/Delete semantics of one committed entry on a mapping
Semantics(m, data) ==
    LET u == CmdUnmarshal(data)
    IN  IF u.err THEN m
        ELSE IF u.cmd.Action = "set" THEN MapSet(m, u.cmd.Key, u.cmd.Value)
        ELSE IF u.cmd.Action = "delete" THEN MapDelete(m, u.cmd.Key)
        ELSE m

RECURSIVE Fold(_, _)
Fold(m, entries) ==
    IF entries = <<>> THEN m
    ELSE Fold(Semantics(m, Head(entries)), Tail(entries))

\* C4: on every node, between Apply calls, the Durable Map is the fold of
\* the Set/Delete semantics, in commit order, over the entries fsm.Apply has
\* been run on.
C4_LogOrder ==
    \A n \in Nodes :
        DurableMap(file[n]) =
            Fold(DurableMap(file0[n]), SubSeq(log, 1, applied[n]))

\* C5: a Config.Set or Config.Delete whose command failed in the leader's
\* fsm.Apply returns a non-nil error.
C5_ErrorPropagation ==
    (call.op \in {"set", "delete"} /\ call.idx > 0
        /\ call.state = "returned" /\ call.resp # "")
        => call.err # ""

\* no entry after index i is a Set or Delete of key k
NoLaterFor(k, i) ==
    \A j \in (i + 1)..Len(log) :
        ~(Recognized(log[j]) /\ CmdUnmarshal(log[j]).cmd.Key = k)

\* C6: after Config.Set(k, v) has returned nil on a node, a Config.Get(k) on
\* that node yields v, as long as no later Set or Delete of k is committed.
C6_ReadYourWrites ==
    [][\A n \in Nodes, k \in Keys :
          (/\ call.op = "set" /\ call.state = "returned" /\ call.err = ""
           /\ call.node = n /\ call.key = k
           /\ NoLaterFor(k, call.idx)
           /\ ConfigGet(n, k))
              => (call'.err = "" /\ call'.out = call.val)]_vars

\* C7 (state part): a node that started from a well-formed data file holds
\* the fold of the entries applied so far, the malformed ones being no-ops:
\* the entries after a malformed one are applied as usual.
C7_LaterEntriesApplied ==
    \A n \in Nodes :
        file0[n].kind = "object"
            => /\ file[n].kind = "object"
               /\ DurableMap(file[n]) =
                      Fold(DurableMap(file0[n]), SubSeq(log, 1, applied[n]))

\* C7 (step part): fsm.Apply of an entry that is no Command, or whose action
\* is neither "set" nor "delete", leaves the data file as it was and
\* returns nil.
C7_MalformedStep ==
    \A n \in Nodes :
        (/\ applied[n] < Len(log)
         /\ ~Recognized(log[applied[n] + 1])
         /\ FsmApply(n))
            => (file'[n] = file[n] /\ resp'[n] = "")

\* C7: a committed entry that does not deserialize into a Command, or whose
\* action is neither "set" nor "delete", is a no-op of fsm.Apply that
\* returns no error, and the entries after it are applied normally.
C7_MalformedNoOp == [][C7_MalformedStep]_vars /\ []C7_LaterEntriesApplied

\* a node with a data file applied a malformed entry and then a Set, which
\* took effect
C7_Witness ==
    \E n \in Nodes :
        /\ file0[n] = OldFile
        /\ applied[n] = 2
        /\ ~Recognized(log[1])
        /\ log[2] = CmdMarshal("set", KeyK, ValV)
        /\ file[n] = Encode(MapSet(DurableMap(OldFile), KeyK, ValV))
        /\ resp[n] = ""

\* C16: fsm.Apply of a Delete command whose key is absent from the Durable
\* Map returns no error and leaves the mapping unchanged.
C16_IdempotentDelete ==
    [][\A n \in Nodes :
          (/\ FsmApply(n)
           /\ Recognized(log[applied[n] + 1])
           /\ CmdUnmarshal(log[applied[n] + 1]).cmd.Action = "delete"
           /\ CmdUnmarshal(log[applied[n] + 1]).cmd.Key
                  \notin DOMAIN DurableMap(file[n]))
              => /\ resp'[n] = ""
                 /\ DurableMap(file'[n]) = DurableMap(file[n])]_vars

(***************************************************************************)
(* Properties of the goroutines inside fsm (SpecRace).                     *)
(***************************************************************************)
\* C8: a loadData or saveData that finds the data-file lock held by another
\* holder returns a lock-contention error after its bounded attempt; it never
\* waits until the holder releases the lock and then goes on.
C8_FailFast ==
    \A t \in Threads :
        ~(th[RaceNode][t].pc # "idle"
          /\ th[RaceNode][t].waited
          /\ InSection(th[RaceNode][t]))

\* C9: at most one caller at a time is between the lock and the release of
\* loadData / saveData: a Get never reads the data file while an Apply is
\* writing it.
C9_MutualExclusion ==
    ~(/\ th[RaceNode]["get"].pc \in {"read", "ldret"}
      /\ th[RaceNode]["fsm"].pc \in {"trunc", "write", "unlock"})

\* C10: a Config.Get(k) that read the data file while an Apply was saving
\* returns the value k had before that Apply or the value it has after it,
\* or a lock error; never a decode error, nor another value.
C10_GetBeforeOrAfter ==
    LET g == th[RaceNode]["get"]
    IN  (g.pc = "done" /\ g.during # "")
            => \/ g.err = "trylock"
               \/ g.err = "" /\ g.out \in {g.pre, g.post}

\* C11: on a node whose data file does not exist, a Get returns "" with no
\* error and leaves a data file that decodes to the empty mapping, and the
\* Apply of a Set succeeds and stores the value.
C11_SelfHealingLoad ==
    [][\A n \in Nodes :
          file[n] = Absent
              => /\ \A k \in Keys :
                        ConfigGet(n, k)
                            => /\ call'.err = "" /\ call'.out = <<>>
                               /\ DecodeOutcomes(file'[n])
                                      = {[err |-> "", m |-> EmptyMap]}
                 /\ (FsmApply(n) /\ Recognized(log[applied[n] + 1])
                         /\ CmdUnmarshal(log[applied[n] + 1]).cmd.Action = "set")
                        => /\ resp'[n] = ""
                           /\ file'[n].kind = "object"]_vars

(***************************************************************************)
(* Properties of snapshots (SpecSnap).                                     *)
(***************************************************************************)
\* C12: a Restore fed the bytes of the node's own Snapshot, with no Apply
\* and no other Restore in between, succeeds and leaves the Durable Map as
\* it was.
C12_SnapshotRestoreFidelity ==
    [][(/\ snapshot[RaceNode].state = "persisted"
        /\ sink[RaceNode] = snapshot[RaceNode].data
        /\ snapshot[RaceNode].at = applied[RaceNode]
        /\ snapshot[RaceNode].of = file[RaceNode]
        /\ FsmRestore(RaceNode, sink[RaceNode]))
           => /\ restore'[RaceNode].err = ""
              /\ DurableMap(file'[RaceNode]) = DurableMap(file[RaceNode])]_vars

\* the node applied two entries, took a snapshot holding "k", persisted it
\* and restored it
C12_Witness ==
    /\ snapshot[RaceNode].state = "persisted"
    /\ snapshot[RaceNode].at = 2 /\ applied[RaceNode] = 2
    /\ restore[RaceNode].state = "done" /\ restore[RaceNode].err = ""
    /\ restore[RaceNode].old = snapshot[RaceNode].data
    /\ restore[RaceNode].prior = snapshot[RaceNode].of
    /\ file[RaceNode] = restore[RaceNode].base
    /\ KeyK \in DOMAIN DurableMap(file[RaceNode])

\* C13: after a Restore that succeeded, the Durable Map is the decoded
\* stream: no key of the prior map survives unless the stream holds it, and
\* every key of the stream is there.
C13_RestoreReplaces ==
    (restore[RaceNode].state = "done" /\ restore[RaceNode].err = "")
        => /\ restore[RaceNode].base.kind = "object"
           /\ [err |-> "", m |-> DurableMap(restore[RaceNode].base)]
                  \in DecodeOutcomes(restore[RaceNode].old)

\* a node whose map held "key" restored a peer's snapshot that holds "k" only
C13_Witness ==
    /\ restore[RaceNode].state = "done" /\ restore[RaceNode].err = ""
    /\ restore[RaceNode].old = PeerBlob
    /\ KeyLit \in DOMAIN DurableMap(restore[RaceNode].prior)
    /\ file[RaceNode] = restore[RaceNode].base
    /\ DOMAIN DurableMap(file[RaceNode]) = {KeyK}

\* C14: a Restore that returns an error (the stream cannot be read, or an
\* entry does not decode) leaves the data file exactly as it was.
C14_RestoreAllOrNothing ==
    [][(/\ restore'[RaceNode].state = "done"
        /\ restore'[RaceNode].err # ""
        /\ restore'[RaceNode].old \in RestoreStreams
        /\ FsmRestore(RaceNode, restore'[RaceNode].old))
           => file'[RaceNode] = file[RaceNode]]_vars

\* a node with a non-empty map was handed the stream whose second entry does
\* not decode; Restore failed and the file is as before
C14_Witness ==
    /\ restore[RaceNode].state = "done" /\ restore[RaceNode].err = "decode"
    /\ restore[RaceNode].old = BadBlob
    /\ restore[RaceNode].prior = file[RaceNode]
    /\ DurableMap(file[RaceNode]) # EmptyMap

\* the data file the applied entries build on: the one installed by the
\* latest Restore that succeeded, else the one the node started with
BaseFile(n) ==
    IF restore[n].base = Absent THEN file0[n] ELSE restore[n].base

\* C18: the blob fsm.Snapshot produces is the encoding of the Durable Map
\* that results from the entries applied on the node before the call, the
\* most recent one included.
C18_SnapshotPointInTime ==
    [][(/\ snapshot'[RaceNode].state = "taken"
        /\ snapshot'[RaceNode].err = ""
        /\ FsmSnapshot(RaceNode))
           => snapshot'[RaceNode].data =
                  Encode(Fold(DurableMap(BaseFile(RaceNode)),
                              SubSeq(log, restore[RaceNode].from + 1,
                                     applied[RaceNode])))]_vars

\* a snapshot taken after two applied entries, the second a Set of "k",
\* holds "k"
C18_Witness ==
    /\ snapshot[RaceNode].state = "taken" /\ snapshot[RaceNode].err = ""
    /\ snapshot[RaceNode].at = 2
    /\ log[2] = CmdMarshal("set", KeyK, ValV)
    /\ restore[RaceNode].state = "none"
    /\ [err |-> "", m |-> MapSet(DurableMap(file0[RaceNode]), KeyK, ValV)]
           \in DecodeOutcomes(snapshot[RaceNode].data)

(***************************************************************************)
(* Properties of package main's store (SpecLocal).                         *)
(***************************************************************************)
\* C15: after any sequence of Set and Delete calls on a missing or
\* pre-populated data file, no call has returned an error, the data file
\* holds the map a reference map would hold, and a Get returns the value the
\* reference map has for the key, "" when it has none.
C15_ReferenceMap ==
    LET ref == Fold(DurableMap(local.file0), local.ops)
    IN  /\ local.ret.err = ""
        /\ DurableMap(local.file) = ref
        /\ local.ret.op = "get" => local.ret.out = MapGet(ref, local.ret.key)

\* on the pre-populated file: Set("k", .), Set("k", "v"), Delete("k"), then
\* Get("k") returned "" while "key" still has the value from the file
C15_Witness ==
    /\ local.file0 = OldFile
    /\ Len(local.ops) = 3
    /\ local.ops[2] = CmdMarshal("set", KeyK, ValV)
    /\ local.ops[3] = CmdMarshal("delete", KeyK, <<>>)
    /\ local.ret = [op |-> "get", key |-> KeyK, err |-> "", out |-> <<>>]
    /\ MapGet(DurableMap(local.file), KeyLit) = ValW

(***************************************************************************)
(* Properties of encode and decode (SpecCodec).                            *)
(***************************************************************************)
\* C17: for every mapping M, decode(encode(M)) succeeds and equals M.
C17_RoundTrip ==
    codec.pc = "decoded" => (codec.err = "" /\ codec.out = codec.m)

\* a mapping with the empty key, a key that is no UTF-8 and an empty value
\* went through encode and decode
C17_Witness ==
    /\ codec.pc = "decoded"
    /\ DOMAIN codec.m = {<<>>, <<255, 0>>, KeyLit}
    /\ codec.m[<<>>] = <<251, 255>>
    /\ codec.m[KeyLit] = <<>>
    /\ codec.out = codec.m

(***************************************************************************)
(* Properties of request routing (SpecRoute).                              *)
(***************************************************************************)
\* C19: for a request the Middleware has dealt with, exactly one of the local
\* handler and the reverse proxy ran, once; the local handler ran if and only
\* if the node's state was read as Leader or the leader address was read as
\* empty, and the proxy was built for the leader address read.
C19_RequestRouting ==
    /\ req.local + req.proxied <= 1
    /\ req.pc = "done"
           => /\ req.local + req.proxied = 1
              /\ req.local = 1 <=> (req.st = "Leader" \/ req.ldr = 0)
              /\ req.proxied = 1 => (req.ldr # 0 /\ req.target = req.ldr)

\* a request that arrived at a follower knowing the leader was proxied to it
C19_Witness ==
    /\ req.pc = "done"
    /\ req.st = "Follower" /\ req.ldr # 0
    /\ req.proxied = 1 /\ req.local = 0
    /\ role[req.node] # "Leader"
    /\ role[req.target] = "Leader"

(***************************************************************************)
(* Properties of startup (SpecBoot).                                       *)
(***************************************************************************)
\* C20: a NewRaftSetup that got past NewRaft and returned took one of two
\* paths.  With no leader address given and none reported it called
\* BootstrapCluster once, with itself as the only server, posted nothing and
\* returned no error.  With a leader
\* address in effect it did not bootstrap, slept, posted once to that
\* address, and returned an error exactly when the POST was not delivered.
\* No startup bootstraps or posts more than once.
C20_StartupPaths ==
    \A n \in Nodes :
        LET b == boot[n]
            none == b.param = "" /\ b.reported = ""
        IN  /\ b.bootstraps + b.posts <= 1
            /\ b.posts = 1 => b.slept
            /\ (b.pc = "returned" /\ b.err # "setup")
                   => IF none
                      THEN /\ b.bootstraps = 1 /\ b.servers = {n}
                           /\ b.posts = 0 /\ b.err = ""
                      ELSE /\ b.bootstraps = 0 /\ b.posts = 1
                           /\ b.raftLeader =
                                  (IF b.reported # "" THEN b.reported
                                   ELSE b.param)
                           /\ b.err # "" <=> ~b.delivered

\* one node bootstrapped a cluster of its own; the other was given the
\* leader's address and its POST failed
C20_Witness ==
    \E n, m \in Nodes :
        /\ boot[n].pc = "returned" /\ boot[n].bootstraps = 1
        /\ boot[n].posts = 0 /\ boot[n].err = ""
        /\ boot[m].pc = "returned" /\ boot[m].param = "http://leader:8080"
        /\ boot[m].posts = 1 /\ boot[m].bootstraps = 0
        /\ boot[m].err = "failed adding self"

(***************************************************************************)
(* Properties of the leadership watch (SpecWatch).                         *)
(***************************************************************************)
\* C21: the watch loop requests a snapshot only for a notification that says
\* the node became leader (true), never for one that says it lost leadership
\* (false), and at most once per notification received.
C21_SnapshotOnLeadership ==
    \A n \in Nodes :
        /\ watch[n].snapshots <= 1
        /\ watch[n].pc = "snap" => watch[n].got /\ watch[n].isLeader
        /\ watch[n].snapshots > 0 => watch[n].got /\ watch[n].isLeader
        /\ (watch[n].got /\ ~watch[n].isLeader) => watch[n].snapshots = 0

\* one node requested its snapshot for a true notification, the other went
\* through a false notification and is back at the select without one
C21_Witness ==
    \E n, m \in Nodes :
        /\ watch[n].got /\ watch[n].isLeader /\ watch[n].snapshots = 1
        /\ watch[m].got /\ ~watch[m].isLeader /\ watch[m].pc = "select"
        /\ watch[m].snapshots = 0

(***************************************************************************)
(* Lock release of loadData and saveData (SpecRace).                       *)
(***************************************************************************)
\* C22: a call of loadData or saveData that has returned, with or without an
\* error, no longer holds the data-file lock: once every call on the node has
\* returned, no Flock object of the node holds the lock.
C22_LockReleasedOnReturn ==
    (\A t \in Threads : th[RaceNode][t].pc \in {"idle", "done"})
        => lockHeld[RaceNode] = 0

====
